---- MODULE Spec2Model ----
(***************************************************************************)
(* LLM Council backend: the Model Gateway (openrouter.query_model), the    *)
(* Fan-Out Dispatcher (openrouter.query_models_parallel), the streaming    *)
(* coordinator (main.send_message_stream.event_generator), the batch       *)
(* coordinator (main.send_message), the Conversation Store (storage.py),   *)
(* the conversation update (main.update_conversation) and the cost         *)
(* estimator (pricing.py), as one state machine.                           *)
(*                                                                         *)
(* Every action is the code between two suspension points of the asyncio   *)
(* event loop (an await that really suspends, or a yield of the event      *)
(* generator).  The client's disconnect and the replies of the remote      *)
(* endpoint are the environment.                                           *)
(***************************************************************************)
EXTENDS Integers, Sequences, FiniteSets, TLC

\* ------------------------------------------------------------------ bounds
\* the members a dispatcher invocation is given, at most
MaxMembers == 3

\* the character counts an estimate is asked for: 0..MaxChars, and as many
\* from the first count at which the default minimums have no effect
MaxChars == 48

\* ------------------------------------------------------------- identities
Members == 1..MaxMembers
\* the requests on the conversation that are followed
Rounds == {1, 2}
\* config.CHAIRMAN_MODEL: a model identifier that is no council member
Chairman == 0
\* the model of the title call: a call of its own, made without the request
TitleModel == -1
Slots == Members \cup {Chairman, TitleModel}

\* query_model's failure value, and a successful response of member m
None == << >>
Response(m) == << m >>

\* what the outbound request can come to (openrouter.py:43-56)
Outcomes == {"ok", "network_error", "timeout", "bad_status", "malformed"}

\* a call: not created, created and not yet run, request in flight, returned a
\* response, returned None, let an Exception escape, raised CancelledError
TaskStates == {"idle", "pending", "sent", "ok", "none", "exc", "cancelled"}
Settled == {"ok", "none", "exc", "cancelled"}

VARIABLES
    hasReq,     \* hasReq[r]: the dispatcher of r was given request (not None)
    disc,       \* disc[r]: the client of r has disconnected
    models,     \* models[r]: the list given to the running dispatcher of r
    disp,       \* disp[r]: the dispatcher invocation of r
    result,     \* result[r]: the mapping the dispatcher returned
    task,       \* task[r][s]: the query_model call of r for model s
    sends,      \* sends[r][s]: outbound requests made by that call
    discPending,  \* the dispatcher's calls not yet run when the client went
    discInFlight, \* its calls whose request was in flight at that moment
    lateCall,   \* lateCall[r]: a request was sent after a check halted round r
    council,    \* config.COUNCIL_MODELS, set when the process starts
    conv,       \* the stored conversation: its title and its messages
    pc,         \* pc[r]: where the handler and the event generator of r stand
    is_first_message,  \* is_first_message[r], main.py line 455
    events,     \* events[r]: the types of the events r has yielded, in order
    lateEvent,  \* lateEvent[r]: r yielded an event after its client had gone
    stage1_results, \* stage1_results[r]: the members whose draft succeeded
    stage2_results, \* stage2_results[r]: the rankings that came back, by member
    stage3_result,  \* stage3_result[r]: "ok" or "failed" once stage 3 is done
    metadata,       \* metadata[r]: label_to_model and aggregate_rankings
    estimate,       \* the last cost estimate: its inputs and what was returned
    patch           \* the last conversation update: request, first read, status

gateVars == << hasReq, disc, models, disp, result, task, sends, discPending, discInFlight, lateCall >>
roundVars == << council, conv, pc, is_first_message, events, lateEvent,
                stage1_results, stage2_results, stage3_result, metadata >>
vars == << gateVars, roundVars, estimate, patch >>

\* ------------------------------------------------------------- sequences
Range(s) == { s[i] : i \in DOMAIN s }

\* the lists without repetition over S, of length at most n
RECURSIVE DistinctSeqs(_, _)
DistinctSeqs(S, n) ==
    IF n = 0 THEN { << >> }
    ELSE LET shorter == DistinctSeqs(S, n - 1)
         IN  shorter \cup UNION { { Append(q, x) : x \in S \ Range(q) } : q \in shorter }

\* ---------------------------------------------------------------- gateway
\* query_model, line 38: the check is made only when a request was passed
CallHasRequest(r, s) == s # TitleModel /\ hasReq[r]

SeesDisconnectNever(r, s) == FALSE
SeesDisconnect(r, s) == CallHasRequest(r, s) /\ disc[r]

\* query_model, lines 43-60: every Exception of the request, the status check
\* and the parsing of the payload is caught and becomes None
QueryModelReturnLeaky(outcome) ==
    IF outcome = "ok" THEN "ok"
    ELSE IF outcome = "malformed" THEN "exc" ELSE "none"
QueryModelReturnRetry(outcome) == IF outcome = "ok" THEN "ok" ELSE "pending"
QueryModelReturn(outcome) == IF outcome = "ok" THEN "ok" ELSE "none"

\* lines 36-47: the disconnect check, then the request is sent
QueryCheck(r, s) ==
    /\ task[r][s] = "pending"
    /\ IF SeesDisconnect(r, s)
       THEN /\ task' = [task EXCEPT ![r][s] = "none"]
            /\ UNCHANGED sends
       ELSE /\ task' = [task EXCEPT ![r][s] = "sent"]
            /\ sends' = [sends EXCEPT ![r][s] = @ + 1]
    /\ lateCall' = [lateCall EXCEPT ![r] = @ \/ (task'[r][s] = "sent" /\ pc[r] = "halted")]
    /\ UNCHANGED << hasReq, disc, models, disp, result, discPending, discInFlight, roundVars, estimate, patch >>

\* lines 43-60: the reply arrives (or the request fails) and the call returns
QueryReply(r, s) ==
    /\ task[r][s] = "sent"
    /\ \E outcome \in Outcomes :
          task' = [task EXCEPT ![r][s] = QueryModelReturn(outcome)]
    /\ UNCHANGED << hasReq, disc, models, disp, result, sends, discPending, discInFlight,
                    lateCall, roundVars, estimate, patch >>

\* Task.cancel(): CancelledError is thrown at the await the call is suspended
\* in; it is no Exception, so line 58 does not catch it
CancelledTask(st) == IF st \in {"pending", "sent"} THEN "cancelled" ELSE st

\* ------------------------------------------------------------- dispatcher
\* lines 82-85: one call per model, all scheduled by gather before it suspends
Gather(ms) == [s \in Slots |-> IF s \in Range(ms) THEN "pending" ELSE "idle"]

\* line 85: gather(return_exceptions=True) resumes when every call is done
AllSettledAny(r) ==
    models[r] = << >> \/ \E m \in Range(models[r]) : task[r][m] \in Settled
AllSucceeded(r) == \A m \in Range(models[r]) : task[r][m] = "ok"
AllSettled(r) == \A m \in Range(models[r]) : task[r][m] \in Settled

\* lines 89-94: an Exception in place of a response becomes None
EntryNoIsolation(st, m) ==
    IF st = "ok" THEN Response(m) ELSE IF st = "exc" THEN << 0 - m >> ELSE None
Entry(st, m) == IF st = "ok" THEN Response(m) ELSE None

\* lines 88-96: result[model] = response, over zip(models, responses)
RECURSIVE ZipResultDropFailed(_, _, _)
ZipResultDropFailed(ms, tk, n) ==
    IF n = 0 THEN << >>
    ELSE IF tk[ms[n]] = "ok"
         THEN (ms[n] :> Entry(tk[ms[n]], ms[n])) @@ ZipResultDropFailed(ms, tk, n - 1)
         ELSE ZipResultDropFailed(ms, tk, n - 1)
RECURSIVE ZipResult(_, _, _)
ZipResult(ms, tk, n) ==
    IF n = 0 THEN << >>
    ELSE (ms[n] :> Entry(tk[ms[n]], ms[n])) @@ ZipResult(ms, tk, n - 1)

\* query_models_parallel is entered: lines 82-85 up to the suspension in gather
QueryModelsParallel(r, ms, rq) ==
    /\ models' = [models EXCEPT ![r] = ms]
    /\ hasReq' = [hasReq EXCEPT ![r] = rq]
    /\ disp' = [disp EXCEPT ![r] = "gathering"]
    /\ task' = [task EXCEPT ![r] = [s \in Slots |->
                    IF s \in Members THEN Gather(ms)[s] ELSE task[r][s]]]
    /\ sends' = [sends EXCEPT ![r] = [s \in Slots |->
                    IF s \in Members THEN 0 ELSE sends[r][s]]]

\* the caller of the dispatcher is cancelled while gather is suspended: gather
\* cancels its children and raises CancelledError when they are done
CancelGather(r) ==
    /\ disp' = [disp EXCEPT ![r] = "cancelled"]
    /\ task' = [task EXCEPT ![r] = [s \in Slots |->
                    IF s \in Members THEN CancelledTask(task[r][s]) ELSE task[r][s]]]

\* the client closes the connection
ClientDisconnects(r) ==
    /\ ~disc[r]
    /\ disc' = [disc EXCEPT ![r] = TRUE]

\* ------------------------------------------- one dispatcher invocation alone
DRound == CHOOSE r \in Rounds : \A q \in Rounds : r <= q

InitDispatch ==
    /\ hasReq = [r \in Rounds |-> FALSE]
    /\ disc = [r \in Rounds |-> FALSE]
    /\ models = [r \in Rounds |-> << >>]
    /\ disp = [r \in Rounds |-> "idle"]
    /\ result = [r \in Rounds |-> << >>]
    /\ task = [r \in Rounds |-> [s \in Slots |-> "idle"]]
    /\ sends = [r \in Rounds |-> [s \in Slots |-> 0]]
    /\ discPending = [r \in Rounds |-> {}]
    /\ discInFlight = [r \in Rounds |-> {}]
    /\ lateCall = [r \in Rounds |-> FALSE]
    /\ council = << >>
    /\ conv = [title |-> << "New Conversation" >>, messages |-> << >>,
               project_id |-> None, work_mode |-> None]
    /\ pc = [r \in Rounds |-> "idle"]
    /\ is_first_message = [r \in Rounds |-> FALSE]
    /\ events = [r \in Rounds |-> << >>]
    /\ lateEvent = [r \in Rounds |-> FALSE]
    /\ stage1_results = [r \in Rounds |-> {}]
    /\ stage2_results = [r \in Rounds |-> << >>]
    /\ stage3_result = [r \in Rounds |-> "none"]
    /\ metadata = [r \in Rounds |-> << >>]
    /\ estimate = << >>
    /\ patch = << >>

\* a caller invokes the dispatcher on a list of distinct models
Dispatch ==
    /\ disp[DRound] = "idle"
    /\ \E ms \in DistinctSeqs(Members, MaxMembers), rq \in BOOLEAN :
          QueryModelsParallel(DRound, ms, rq)
    /\ UNCHANGED << disc, result, discPending, discInFlight, lateCall, roundVars, estimate, patch >>

DispatchCheck == \E m \in Members : disp[DRound] = "gathering" /\ QueryCheck(DRound, m)

DispatchReply == \E m \in Members : disp[DRound] = "gathering" /\ QueryReply(DRound, m)

\* lines 85-96: gather resumes, the mapping is built and returned
DispatchReturn ==
    /\ disp[DRound] = "gathering"
    /\ AllSettled(DRound)
    /\ disp' = [disp EXCEPT ![DRound] = "returned"]
    /\ result' = [result EXCEPT ![DRound] =
            ZipResult(models[DRound], task[DRound], Len(models[DRound]))]
    /\ UNCHANGED << hasReq, disc, models, task, sends, discPending, discInFlight,
                    lateCall, roundVars, estimate, patch >>

DispatchDisconnect ==
    /\ disp[DRound] = "gathering"
    /\ ClientDisconnects(DRound)
    /\ discPending' = [discPending EXCEPT ![DRound] =
            { s \in Slots : CallHasRequest(DRound, s) /\ task[DRound][s] = "pending" }]
    /\ discInFlight' = [discInFlight EXCEPT ![DRound] =
            { s \in Slots : CallHasRequest(DRound, s) /\ task[DRound][s] = "sent" }]
    /\ UNCHANGED << hasReq, models, disp, result, task, sends, lateCall, roundVars, estimate, patch >>

\* the request is withdrawn: the caller's task is cancelled
DispatchCancel ==
    /\ disp[DRound] = "gathering"
    /\ disc[DRound]
    /\ CancelGather(DRound)
    /\ UNCHANGED << hasReq, disc, models, result, sends, discPending, discInFlight,
                    lateCall, roundVars, estimate, patch >>

NextDispatch ==
    \/ Dispatch
    \/ DispatchCheck
    \/ DispatchReply
    \/ DispatchReturn
    \/ DispatchDisconnect
    \/ DispatchCancel

SpecDispatch == InitDispatch /\ [][NextDispatch]_vars

\* The dispatcher under a gateway that lets an Exception escape: the case
\* lines 85 and 90-92 are written for.  query_model itself catches every
\* Exception (lines 58-60), so this step is no step of SpecDispatch.
GatewayLeak ==
    /\ disp[DRound] = "gathering"
    /\ \E m \in Members :
          /\ task[DRound][m] = "sent"
          /\ task' = [task EXCEPT ![DRound][m] = "exc"]
    /\ UNCHANGED << hasReq, disc, models, disp, result, sends, discPending, discInFlight,
                    lateCall, roundVars, estimate, patch >>

NextLeak == NextDispatch \/ GatewayLeak

SpecLeak == InitDispatch /\ [][NextLeak]_vars

\* ------------------------------------------------------ conversation store
\* storage.add_user_message: read the document, append, write it back
AddUserMessageLost(c, r) == c
AddUserMessage(c, r) ==
    [c EXCEPT !.messages = Append(@, [role |-> "user", round |-> r])]

\* storage.add_assistant_message
AddAssistantMessage(c, r) ==
    [c EXCEPT !.messages = Append(@, [role |-> "assistant", round |-> r])]

\* storage.update_conversation_title: the document is read, its title replaced
\* whatever it was, and the document written back, with no suspension between
UpdateConversationTitleOnce(c, title) ==
    IF c.title = << "New Conversation" >> THEN [c EXCEPT !.title = title] ELSE c
UpdateConversationTitle(c, title) == [c EXCEPT !.title = title]

\* generate_conversation_title: the title of the first message of r, or the
\* default one when its call failed
GeneratedTitle(r, st) == IF st = "ok" THEN << "title", r >> ELSE << "New Conversation" >>

\* ------------------------------------------------ ranking and aggregation
\* the stage functions keep the responses that are not None
Successful(res) == { m \in DOMAIN res : res[m] # None }

\* the label-to-member mapping of a round: the successful drafts are labelled
\* 1, 2, ... in dispatch order
LabelToModel(all, drafts) == SelectSeq(all, LAMBDA m : m \in drafts)

\* the rankings a member can return: the permutations of the labels 1..k
LabelPermutations(k) == { p \in [1..k -> 1..k] : \A i, j \in 1..k : p[i] = p[j] => i = j }

Position(p, x) == CHOOSE i \in DOMAIN p : p[i] = x

\* positional score: with k labels, rank 1 scores k and rank k scores 1; the
\* scores of a label are summed over the rankings
RECURSIVE RankSum(_, _, _)
RankSum(rankers, rankings, label) ==
    IF rankers = {} THEN 0
    ELSE LET q == CHOOSE x \in rankers : TRUE
         IN  (Len(rankings[q]) + 1 - Position(rankings[q], label))
                 + RankSum(rankers \ {q}, rankings, label)

\* a member without a label (its draft failed) has the minimum score, 0, as
\* has every member when there is no ranking
MemberScore(rankings, label_to_model, m) ==
    IF m \in Range(label_to_model)
    THEN RankSum(DOMAIN rankings, rankings, Position(label_to_model, m))
    ELSE 0

\* aggregate: every member, by descending score, ties in dispatch order
CalculateAggregateRankings(rankings, label_to_model, all) ==
    LET score(m) == MemberScore(rankings, label_to_model, m)
        Before(a, b) ==
            \/ score(a) > score(b)
            \/ score(a) = score(b) /\ Position(all, a) < Position(all, b)
        Place(m) == 1 + Cardinality({ x \in Range(all) : Before(x, m) })
    IN  [i \in 1..Len(all) |->
            LET m == CHOOSE x \in Range(all) : Place(x) = i
            IN  [model |-> m, score |-> score(m)]]

\* what stage 2 can return once its calls have settled: one ranking, a
\* permutation of the labels, for each member whose call brought a response
Stage2Rankings(r) ==
    LET rankers == Successful(ZipResult(models[r], task[r], Len(models[r])))
    IN  [rankers -> LabelPermutations(Len(LabelToModel(council, stage1_results[r])))]

\* main.py lines 498-499
MetadataOfLabelled(r, rankings) ==
    LET label_to_model == LabelToModel(council, stage1_results[r])
    IN  [label_to_model |-> label_to_model,
         aggregate_rankings |->
             CalculateAggregateRankings(rankings, label_to_model, label_to_model)]
Metadata(r, rankings) ==
    LET label_to_model == LabelToModel(council, stage1_results[r])
    IN  [label_to_model |-> label_to_model,
         aggregate_rankings |->
             CalculateAggregateRankings(rankings, label_to_model, council)]

\* ---------------------------------------------------- streaming coordinator
Terminal == {"done", "skipped", "halted", "aborted", "error"}
\* where the batch handler send_message stands: awaiting the title, a stage of
\* run_full_council, or gone (it returned its result, or raised)
Batch == {"b_title", "b_stage1", "b_stage2", "b_stage3"}
BatchEnded == {"returned", "failed"}
InFlight(r) == pc[r] \notin Terminal \cup Batch \cup BatchEnded \cup {"idle"}

\* a yield of event_generator
Emit(r, type) ==
    /\ events' = [events EXCEPT ![r] = Append(@, type)]
    /\ lateEvent' = [lateEvent EXCEPT ![r] = @ \/ disc[r]]

\* title_task.cancel(), lines 480-481, 492-493, 505-506
CancelTitleForgotten(tk) == tk
CancelTitle(tk) == [tk EXCEPT ![TitleModel] = CancelledTask(@)]

\* the generator returns: its local variables and the calls of its stage are
\* gone; the title task, if it still runs, goes on
EndRound(r, how, tk) ==
    /\ pc' = [pc EXCEPT ![r] = how]
    /\ task' = [task EXCEPT ![r] = [s \in Slots |-> IF s = TitleModel THEN tk[s] ELSE "idle"]]
    /\ sends' = [sends EXCEPT ![r] = [s \in Slots |-> IF s = TitleModel THEN @[s] ELSE 0]]
    /\ hasReq' = [hasReq EXCEPT ![r] = FALSE]
    /\ models' = [models EXCEPT ![r] = << >>]
    /\ disp' = [disp EXCEPT ![r] = "idle"]
    /\ stage1_results' = [stage1_results EXCEPT ![r] = {}]
    /\ stage2_results' = [stage2_results EXCEPT ![r] = << >>]
    /\ stage3_result' = [stage3_result EXCEPT ![r] = "none"]
    /\ metadata' = [metadata EXCEPT ![r] = << >>]
    /\ UNCHANGED << disc, result, discPending, discInFlight, lateCall, council, estimate, patch,
                    is_first_message >>

\* a check between two stages found the client gone: lines 478-482, 490-494,
\* 503-507
Halt(r) ==
    /\ EndRound(r, "halted", CancelTitle(task[r]))
    /\ UNCHANGED << conv, events, lateEvent >>

\* the handler, lines 449-455 and 538-545: the conversation is read, the
\* streaming response is returned; the generator has not run yet
SendMessageStream(r) ==
    /\ pc[r] = "idle"
    /\ \A q \in Rounds : q < r => pc[q] # "idle"
    /\ is_first_message' = [is_first_message EXCEPT ![r] = (Len(conv.messages) = 0)]
    /\ pc' = [pc EXCEPT ![r] = "generator"]
    /\ UNCHANGED << gateVars, council, estimate, patch, conv, events, lateEvent,
                    stage1_results, stage2_results, stage3_result, metadata >>

\* lines 458-475: the first check, the user message, the title task
BeforeProcessingUnchecked(r) ==
    /\ pc[r] = "generator"
    /\ conv' = AddUserMessage(conv, r)
    /\ task' = [task EXCEPT ![r][TitleModel] =
                   IF is_first_message[r] THEN "pending" ELSE @]
    /\ pc' = [pc EXCEPT ![r] = "check1"]
    /\ UNCHANGED << hasReq, disc, models, disp, result, sends, discPending,
                    discInFlight, lateCall, council, estimate, patch, is_first_message, events,
                    lateEvent, stage1_results, stage2_results, stage3_result, metadata >>
BeforeProcessing(r) ==
    /\ pc[r] = "generator"
    /\ IF disc[r]
       THEN /\ EndRound(r, "skipped", task[r])
            /\ UNCHANGED << conv, events, lateEvent >>
       ELSE /\ conv' = AddUserMessage(conv, r)
            /\ task' = [task EXCEPT ![r][TitleModel] =
                           IF is_first_message[r] THEN "pending" ELSE @]
            /\ pc' = [pc EXCEPT ![r] = "check1"]
            /\ UNCHANGED << hasReq, disc, models, disp, result, sends, discPending,
                            discInFlight, lateCall, council, estimate, patch, is_first_message, events,
                            lateEvent, stage1_results, stage2_results, stage3_result, metadata >>

\* stage1_collect_responses and stage2_collect_rankings (council.py) hand the
\* prompt to the dispatcher for the whole council, with the request
Stage1CollectResponses(r) == QueryModelsParallel(r, council, TRUE)
Stage2CollectRankings(r) == QueryModelsParallel(r, council, TRUE)

\* stage3_synthesize_final (council.py): one gateway call, to the chairman,
\* with the request; the calls of stage 2 are gone
Stage3SynthesizeFinal(r) ==
    /\ task' = [task EXCEPT ![r] = [s \in Slots |->
                   IF s = Chairman THEN "pending"
                   ELSE IF s \in Members THEN "idle" ELSE @[s]]]
    /\ sends' = [sends EXCEPT ![r] = [s \in Slots |->
                   IF s = TitleModel THEN @[s] ELSE 0]]

\* lines 478-486: the check before stage 1, stage1_start, stage 1 is entered
CheckStage1(r) ==
    /\ pc[r] = "check1"
    /\ IF disc[r]
       THEN Halt(r)
       ELSE /\ Emit(r, "stage1_start")
            /\ Stage1CollectResponses(r)
            /\ pc' = [pc EXCEPT ![r] = "stage1"]
            /\ UNCHANGED << disc, result, discPending, discInFlight, lateCall, council, estimate, patch,
                            conv, is_first_message, stage1_results, stage2_results,
                            stage3_result, metadata >>

\* lines 486-487: stage 1 returns and stage1_complete is yielded
Stage1Complete(r) ==
    /\ pc[r] = "stage1"
    /\ AllSettled(r)
    /\ stage1_results' = [stage1_results EXCEPT ![r] =
            Successful(ZipResult(models[r], task[r], Len(models[r])))]
    /\ disp' = [disp EXCEPT ![r] = "returned"]
    /\ Emit(r, "stage1_complete")
    /\ pc' = [pc EXCEPT ![r] = "check2"]
    /\ UNCHANGED << hasReq, disc, models, result, task, sends, discPending,
                    discInFlight, lateCall, council, estimate, patch, conv, is_first_message,
                    stage2_results, stage3_result, metadata >>

\* lines 490-497: the check before stage 2, stage2_start, stage 2 is entered
CheckStage2NeedsDrafts(r) ==
    /\ pc[r] = "check2"
    /\ IF disc[r] \/ stage1_results[r] = {}
       THEN Halt(r)
       ELSE /\ Emit(r, "stage2_start")
            /\ Stage2CollectRankings(r)
            /\ pc' = [pc EXCEPT ![r] = "stage2"]
            /\ UNCHANGED << disc, result, discPending, discInFlight, lateCall, council, estimate, patch,
                            conv, is_first_message, stage1_results, stage2_results,
                            stage3_result, metadata >>
CheckStage2(r) ==
    /\ pc[r] = "check2"
    /\ IF disc[r]
       THEN Halt(r)
       ELSE /\ Emit(r, "stage2_start")
            /\ Stage2CollectRankings(r)
            /\ pc' = [pc EXCEPT ![r] = "stage2"]
            /\ UNCHANGED << disc, result, discPending, discInFlight, lateCall, council, estimate, patch,
                            conv, is_first_message, stage1_results, stage2_results,
                            stage3_result, metadata >>

\* lines 497-500: stage 2 returns, the aggregate is computed, stage2_complete
Stage2CompleteChecked(r) ==
    /\ pc[r] = "stage2"
    /\ AllSettled(r)
    /\ IF disc[r]
       THEN Halt(r)
       ELSE /\ \E rk \in Stage2Rankings(r) :
                  /\ stage2_results' = [stage2_results EXCEPT ![r] = rk]
                  /\ metadata' = [metadata EXCEPT ![r] = Metadata(r, rk)]
            /\ disp' = [disp EXCEPT ![r] = "returned"]
            /\ Emit(r, "stage2_complete")
            /\ pc' = [pc EXCEPT ![r] = "check3"]
            /\ UNCHANGED << hasReq, disc, models, result, task, sends, discPending,
                            discInFlight, lateCall, council, estimate, patch, conv, is_first_message,
                            stage1_results, stage3_result >>
Stage2Complete(r) ==
    /\ pc[r] = "stage2"
    /\ AllSettled(r)
    /\ \E rk \in Stage2Rankings(r) :
          /\ stage2_results' = [stage2_results EXCEPT ![r] = rk]
          /\ metadata' = [metadata EXCEPT ![r] = Metadata(r, rk)]
    /\ disp' = [disp EXCEPT ![r] = "returned"]
    /\ Emit(r, "stage2_complete")
    /\ pc' = [pc EXCEPT ![r] = "check3"]
    /\ UNCHANGED << hasReq, disc, models, result, task, sends, discPending,
                    discInFlight, lateCall, council, estimate, patch, conv, is_first_message,
                    stage1_results, stage3_result >>

\* lines 503-510: the check before stage 3, stage3_start, the chairman's call
CheckStage3(r) ==
    /\ pc[r] = "check3"
    /\ IF disc[r]
       THEN Halt(r)
       ELSE /\ Emit(r, "stage3_start")
            /\ Stage3SynthesizeFinal(r)
            /\ pc' = [pc EXCEPT ![r] = "stage3"]
            /\ UNCHANGED << hasReq, disc, models, disp, result, discPending,
                            discInFlight, lateCall, council, estimate, patch, conv, is_first_message,
                            stage1_results, stage2_results, stage3_result, metadata >>

\* lines 510-511: stage 3 returns and stage3_complete is yielded
Stage3CompleteOrError(r) ==
    /\ pc[r] = "stage3"
    /\ task[r][Chairman] \in Settled
    /\ IF task[r][Chairman] = "ok"
       THEN /\ stage3_result' = [stage3_result EXCEPT ![r] = "ok"]
            /\ Emit(r, "stage3_complete")
            /\ pc' = [pc EXCEPT ![r] = IF is_first_message[r] THEN "await_title" ELSE "save"]
            /\ UNCHANGED << gateVars, council, estimate, patch, conv, is_first_message, stage1_results,
                            stage2_results, metadata >>
       ELSE /\ Emit(r, "error")
            /\ EndRound(r, "error", task[r])
            /\ UNCHANGED conv
Stage3Complete(r) ==
    /\ pc[r] = "stage3"
    /\ task[r][Chairman] \in Settled
    /\ stage3_result' = [stage3_result EXCEPT ![r] =
            IF task[r][Chairman] = "ok" THEN "ok" ELSE "failed"]
    /\ Emit(r, "stage3_complete")
    /\ pc' = [pc EXCEPT ![r] = IF is_first_message[r] THEN "await_title" ELSE "save"]
    /\ UNCHANGED << gateVars, council, estimate, patch, conv, is_first_message, stage1_results,
                    stage2_results, metadata >>

\* lines 514-517: the title task is awaited, the title stored, title_complete
TitleComplete(r) ==
    /\ pc[r] = "await_title"
    /\ task[r][TitleModel] \in Settled
    /\ conv' = UpdateConversationTitle(conv, GeneratedTitle(r, task[r][TitleModel]))
    /\ Emit(r, "title_complete")
    /\ pc' = [pc EXCEPT ![r] = "save"]
    /\ UNCHANGED << gateVars, council, estimate, patch, is_first_message, stage1_results,
                    stage2_results, stage3_result, metadata >>

\* lines 520-529: the assistant message is stored and complete is yielded
SaveAndCompleteUnsaved(r) ==
    /\ pc[r] = "save"
    /\ UNCHANGED conv
    /\ Emit(r, "complete")
    /\ EndRound(r, "done", task[r])
SaveAndComplete(r) ==
    /\ pc[r] = "save"
    /\ conv' = AddAssistantMessage(conv, r)
    /\ Emit(r, "complete")
    /\ EndRound(r, "done", task[r])

\* an Exception can be raised by the step the generator takes next: a store
\* call, format_user_content, a stage function, the dump of an event
CanRaise(r) ==
    \/ pc[r] \in {"generator", "check1"} /\ ~disc[r]
    \/ pc[r] \in {"stage1", "stage2"} /\ AllSettled(r)
    \/ pc[r] = "stage3" /\ task[r][Chairman] \in Settled
    \/ pc[r] = "await_title" /\ task[r][TitleModel] \in Settled
    \/ pc[r] = "save"

\* lines 534-536: the Exception is caught, error is yielded, the generator ends
OnExceptionThenComplete(r) ==
    /\ events' = [events EXCEPT ![r] = Append(Append(@, "error"), "complete")]
    /\ lateEvent' = [lateEvent EXCEPT ![r] = @ \/ disc[r]]
OnException(r) == Emit(r, "error")

Raise(r) ==
    /\ CanRaise(r)
    /\ OnException(r)
    /\ EndRound(r, "error", task[r])
    /\ UNCHANGED conv

\* the calls of the running stage, and the title call, take their steps
StageCheck(r) ==
    \E s \in Slots :
        /\ s \in Members => pc[r] \in {"stage1", "stage2"}
        /\ s = Chairman => pc[r] = "stage3"
        /\ QueryCheck(r, s)

StageReply(r) ==
    \E s \in Slots :
        /\ s \in Members => pc[r] \in {"stage1", "stage2"}
        /\ s = Chairman => pc[r] = "stage3"
        /\ QueryReply(r, s)

\* the client of a round that is being processed goes away
Disconnect(r) ==
    /\ InFlight(r)
    /\ ClientDisconnects(r)
    /\ UNCHANGED << hasReq, models, disp, result, task, sends, discPending,
                    discInFlight, lateCall, roundVars, estimate, patch >>

\* lines 531-533: the generator is cancelled at the point it is suspended in;
\* the stage it awaits is cancelled with it, the title task is not
Cancelled(r) ==
    /\ InFlight(r)
    /\ disc[r]
    /\ EndRound(r, "aborted", task[r])
    /\ UNCHANGED << conv, events, lateEvent >>

\* ------------------------------------------------------ batch coordinator
\* run_full_council (council.py) is given the prompt only: its stage functions
\* dispatch to the whole council without a request
RunStage1(r) == QueryModelsParallel(r, council, FALSE)
RunStage2(r) == QueryModelsParallel(r, council, FALSE)

\* send_message, lines 399-423 up to its first suspension: the conversation is
\* read, the user message stored, then the title call is awaited (first
\* message) or run_full_council is entered
SendMessage(r) ==
    /\ pc[r] = "idle"
    /\ \A q \in Rounds : q < r => pc[q] # "idle"
    /\ is_first_message' = [is_first_message EXCEPT ![r] = (Len(conv.messages) = 0)]
    /\ conv' = AddUserMessage(conv, r)
    /\ IF Len(conv.messages) = 0
       THEN /\ task' = [task EXCEPT ![r][TitleModel] = "pending"]
            /\ pc' = [pc EXCEPT ![r] = "b_title"]
            /\ UNCHANGED << hasReq, models, disp, sends >>
       ELSE /\ RunStage1(r)
            /\ pc' = [pc EXCEPT ![r] = "b_stage1"]
    /\ UNCHANGED << disc, result, discPending, discInFlight, lateCall, council, estimate, patch,
                    events, lateEvent, stage1_results, stage2_results, stage3_result, metadata >>

\* lines 416-423: the title is back and stored, run_full_council is entered
BatchTitle(r) ==
    /\ pc[r] = "b_title"
    /\ task[r][TitleModel] \in Settled
    /\ conv' = UpdateConversationTitle(conv, GeneratedTitle(r, task[r][TitleModel]))
    /\ RunStage1(r)
    /\ pc' = [pc EXCEPT ![r] = "b_stage1"]
    /\ UNCHANGED << disc, result, discPending, discInFlight, lateCall, council, estimate, patch,
                    is_first_message, events, lateEvent, stage1_results,
                    stage2_results, stage3_result, metadata >>

\* run_full_council: stage 1 has returned, stage 2 is entered
BatchStage1(r) ==
    /\ pc[r] = "b_stage1"
    /\ AllSettled(r)
    /\ stage1_results' = [stage1_results EXCEPT ![r] =
            Successful(ZipResult(models[r], task[r], Len(models[r])))]
    /\ RunStage2(r)
    /\ pc' = [pc EXCEPT ![r] = "b_stage2"]
    /\ UNCHANGED << disc, result, discPending, discInFlight, lateCall, council, estimate, patch,
                    conv, is_first_message, events, lateEvent, stage2_results,
                    stage3_result, metadata >>

\* run_full_council: stage 2 has returned, the aggregate is computed, the
\* chairman is called
BatchStage2(r) ==
    /\ pc[r] = "b_stage2"
    /\ AllSettled(r)
    /\ \E rk \in Stage2Rankings(r) :
          /\ stage2_results' = [stage2_results EXCEPT ![r] = rk]
          /\ metadata' = [metadata EXCEPT ![r] = Metadata(r, rk)]
    /\ disp' = [disp EXCEPT ![r] = "returned"]
    /\ Stage3SynthesizeFinal(r)
    /\ pc' = [pc EXCEPT ![r] = "b_stage3"]
    /\ UNCHANGED << hasReq, disc, models, result, discPending, discInFlight,
                    lateCall, council, estimate, patch, conv, is_first_message, events, lateEvent,
                    stage1_results, stage3_result >>

\* lines 421-440: run_full_council returns, the assistant message is stored,
\* the handler returns the result of the three stages
BatchReturnEarly(r) ==
    /\ pc[r] \in {"b_stage2", "b_stage3"}
    /\ pc[r] = "b_stage3" => task[r][Chairman] \in Settled
    /\ conv' = AddAssistantMessage(conv, r)
    /\ EndRound(r, "returned", task[r])
    /\ UNCHANGED << events, lateEvent >>
BatchReturn(r) ==
    /\ pc[r] = "b_stage3"
    /\ task[r][Chairman] \in Settled
    /\ conv' = AddAssistantMessage(conv, r)
    /\ EndRound(r, "returned", task[r])
    /\ UNCHANGED << events, lateEvent >>

\* an Exception raised in the handler is not caught: the caller gets a
\* transport-level error and no result
BatchRaise(r) ==
    /\ \/ pc[r] = "b_title" /\ task[r][TitleModel] \in Settled
       \/ pc[r] \in {"b_stage1", "b_stage2"} /\ AllSettled(r)
       \/ pc[r] = "b_stage3" /\ task[r][Chairman] \in Settled
    /\ EndRound(r, "failed", task[r])
    /\ UNCHANGED << conv, events, lateEvent >>

\* the calls of the stage run_full_council is in, or the title call
BatchCheck(r) ==
    \E s \in Slots :
        /\ s \in Members => pc[r] \in {"b_stage1", "b_stage2"}
        /\ s = Chairman => pc[r] = "b_stage3"
        /\ s = TitleModel => pc[r] = "b_title"
        /\ QueryCheck(r, s)

BatchReply(r) ==
    \E s \in Slots :
        /\ s \in Members => pc[r] \in {"b_stage1", "b_stage2"}
        /\ s = Chairman => pc[r] = "b_stage3"
        /\ s = TitleModel => pc[r] = "b_title"
        /\ QueryReply(r, s)

BatchStep(r) ==
    \/ BatchTitle(r)
    \/ BatchStage1(r)
    \/ BatchStage2(r)
    \/ BatchReturn(r)
    \/ BatchRaise(r)
    \/ BatchCheck(r)
    \/ BatchReply(r)

FirstMembers(n) == [i \in 1..n |-> i]

\* what the conversation can hold when a request arrives: nothing, the user
\* message of a round that was halted, or a whole earlier exchange
StoredBefore ==
    { << >>,
      << [role |-> "user", round |-> 0] >>,
      << [role |-> "user", round |-> 0], [role |-> "assistant", round |-> 0] >> }

InitRounds(n, stored) ==
    /\ hasReq = [r \in Rounds |-> FALSE]
    /\ disc = [r \in Rounds |-> FALSE]
    /\ models = [r \in Rounds |-> << >>]
    /\ disp = [r \in Rounds |-> "idle"]
    /\ result = [r \in Rounds |-> << >>]
    /\ task = [r \in Rounds |-> [s \in Slots |-> "idle"]]
    /\ sends = [r \in Rounds |-> [s \in Slots |-> 0]]
    /\ discPending = [r \in Rounds |-> {}]
    /\ discInFlight = [r \in Rounds |-> {}]
    /\ lateCall = [r \in Rounds |-> FALSE]
    /\ council = FirstMembers(n)
    /\ conv \in { [title |-> << "New Conversation" >>, messages |-> ms,
                    project_id |-> None, work_mode |-> None] : ms \in stored }
    /\ pc = [r \in Rounds |-> "idle"]
    /\ is_first_message = [r \in Rounds |-> FALSE]
    /\ events = [r \in Rounds |-> << >>]
    /\ lateEvent = [r \in Rounds |-> FALSE]
    /\ stage1_results = [r \in Rounds |-> {}]
    /\ stage2_results = [r \in Rounds |-> << >>]
    /\ stage3_result = [r \in Rounds |-> "none"]
    /\ metadata = [r \in Rounds |-> << >>]
    /\ estimate = << >>
    /\ patch = << >>

Step(r) ==
    \/ BeforeProcessing(r)
    \/ CheckStage1(r)
    \/ Stage1Complete(r)
    \/ CheckStage2(r)
    \/ Stage2Complete(r)
    \/ CheckStage3(r)
    \/ Stage3Complete(r)
    \/ TitleComplete(r)
    \/ SaveAndComplete(r)
    \/ Raise(r)
    \/ StageCheck(r)
    \/ StageReply(r)
    \/ Disconnect(r)
    \/ Cancelled(r)

\* one streaming request on a conversation
Init == InitRounds(MaxMembers - 1, StoredBefore)

Next ==
    \/ SendMessageStream(DRound)
    \/ Step(DRound)
    \/ SendMessage(DRound)
    \/ BatchStep(DRound)

Spec == Init /\ [][Next]_vars

\* streaming requests on one conversation that overlap
InitConc == InitRounds(1, { << >> })

NextConc ==
    \E r \in Rounds :
        \/ SendMessageStream(r)
        \/ Step(r)

SpecConc == InitConc /\ [][NextConc]_vars

\* batch and streaming requests on one conversation that overlap
NextMix ==
    \E r \in Rounds :
        \/ SendMessageStream(r)
        \/ Step(r)
        \/ SendMessage(r)
        \/ BatchStep(r)

SpecMix == InitConc /\ [][NextMix]_vars

\* the steps of a streaming round that the event loop takes by itself: the
\* generator is resumed when what it awaits is done, and a gateway call is
\* sent and comes back, with a reply or with the failure its timeout bounds
\* it by.  An exception, a disconnect and a cancellation are not among them.
Resume(r) ==
    \/ BeforeProcessing(r)
    \/ CheckStage1(r)
    \/ Stage1Complete(r)
    \/ CheckStage2(r)
    \/ Stage2Complete(r)
    \/ CheckStage3(r)
    \/ Stage3Complete(r)
    \/ TitleComplete(r)
    \/ SaveAndComplete(r)
    \/ StageCheck(r)
    \/ StageReply(r)

\* one request on a conversation, on an event loop that runs what is ready
SpecLive == Init /\ [][Next]_vars /\ WF_vars(Resume(DRound))

\* ----------------------------------------------------------- cost estimator
\* Token counts are integers, as in the code.  A ratio is held in hundredths
\* (0.9 is 90), a rate in cents per million tokens (1.25 is 125), and a cost
\* in units of 1e-8 USD: tokens times rate, which is (tokens / 1e6) * rate.
\* The ceil of the code is taken of the exact product.
MaxFirst(a, b) == a
Max(a, b) == IF a >= b THEN a ELSE b
CeilDiv(a, b) == (a + b - 1) \div b
CeilRatio(tokens, ratio) == CeilDiv(tokens * ratio, 100)

\* dict.get(key, default)
Get(d, key, default) == IF key \in DOMAIN d THEN d[key] ELSE default

\* {**a, **b}
Merge(a, b) ==
    [key \in DOMAIN a \cup DOMAIN b |-> IF key \in DOMAIN b THEN b[key] ELSE a[key]]

\* pricing.DEFAULT_ASSUMPTIONS
DEFAULT_ASSUMPTIONS ==
    [chars_per_token |-> 4,
     min_stage1_tokens |-> 512,
     min_stage2_tokens |-> 256,
     min_stage3_tokens |-> 256,
     stage1_output_ratio |-> 90,
     stage2_output_ratio |-> 35,
     stage3_output_ratio |-> 80]

\* config.COUNCIL_MODELS, config.CHAIRMAN_MODEL and config.MODEL_PRICING
COUNCIL_MODELS ==
    << "openai/gpt-5.1", "google/gemini-3-pro-preview", "deepseek/deepseek-v3.2",
       "x-ai/grok-4" >>
CHAIRMAN_MODEL == "anthropic/claude-sonnet-4.5"
MODEL_PRICING ==
    [m \in Range(COUNCIL_MODELS) \cup {CHAIRMAN_MODEL} |->
        CASE m = "openai/gpt-5.1" ->
                 [input_per_million |-> 125, output_per_million |-> 1000]
          [] m = "google/gemini-3-pro-preview" ->
                 [input_per_million |-> 200, output_per_million |-> 1200]
          [] m = "deepseek/deepseek-v3.2" ->
                 [input_per_million |-> 25, output_per_million |-> 38]
          [] OTHER ->
                 [input_per_million |-> 300, output_per_million |-> 1500]]

\* pricing.tokens_from_chars, for a chars_per_token of at least 1
TokensFromCharsPlusOne(char_count, chars_per_token) ==
    IF char_count <= 0 THEN 0 ELSE (char_count \div chars_per_token) + 1
TokensFromChars(char_count, chars_per_token) ==
    IF char_count <= 0 THEN 0 ELSE CeilDiv(char_count, chars_per_token)

\* pricing.estimate_model_cost
EstimateModelCostInputOnly(model_id, input_tokens, output_tokens, pricing) ==
    LET model_pricing == Get(pricing, model_id, << >>)
        input_rate == Get(model_pricing, "input_per_million", 0)
        output_rate == Get(model_pricing, "output_per_million", 0)
    IN  [model |-> model_id,
         input_tokens |-> input_tokens,
         output_tokens |-> output_tokens,
         input_rate_per_million |-> input_rate,
         output_rate_per_million |-> output_rate,
         cost_input |-> input_tokens * input_rate,
         cost_output |-> output_tokens * output_rate,
         cost_total |-> input_tokens * input_rate,
         pricing_missing |-> (input_rate = 0 /\ output_rate = 0)]
EstimateModelCost(model_id, input_tokens, output_tokens, pricing) ==
    LET model_pricing == Get(pricing, model_id, << >>)
        input_rate == Get(model_pricing, "input_per_million", 0)
        output_rate == Get(model_pricing, "output_per_million", 0)
        cost_input == input_tokens * input_rate
        cost_output == output_tokens * output_rate
    IN  [model |-> model_id,
         input_tokens |-> input_tokens,
         output_tokens |-> output_tokens,
         input_rate_per_million |-> input_rate,
         output_rate_per_million |-> output_rate,
         cost_input |-> cost_input,
         cost_output |-> cost_output,
         cost_total |-> cost_input + cost_output,
         pricing_missing |-> (input_rate = 0 /\ output_rate = 0)]

\* sum(item["cost_total"] for item in estimates)
RECURSIVE SumCostTotal(_, _)
SumCostTotal(estimates, n) ==
    IF n = 0 THEN 0 ELSE estimates[n].cost_total + SumCostTotal(estimates, n - 1)

\* pricing.estimate_council_cost
EstimateCouncilCost(total_chars, model_ids, chairman_model, pricing, assumptions) ==
    LET params == Merge(DEFAULT_ASSUMPTIONS, assumptions)
        stage1_output_ratio ==
            Get(params, "stage1_output_ratio", Get(params, "stage1_output_multiplier", 90))
        stage2_output_ratio ==
            Get(params, "stage2_output_ratio", Get(params, "stage2_output_multiplier", 35))
        stage3_output_ratio ==
            Get(params, "stage3_output_ratio", Get(params, "stage3_output_multiplier", 80))
        base_tokens ==
            Max(TokensFromChars(total_chars, params["chars_per_token"]),
                Get(params, "min_stage1_tokens", 0))
        num_models == Len(model_ids)
        stage1_input_tokens_per_model == base_tokens
        stage1_output_tokens_per_model ==
            Max(CeilRatio(base_tokens, stage1_output_ratio),
                Get(params, "min_stage1_tokens", 0) \div 2)
        stage1_total_output_tokens == stage1_output_tokens_per_model * num_models
        stage2_input_tokens_per_model ==
            Max(base_tokens + stage1_total_output_tokens,
                Get(params, "min_stage2_tokens", 0))
        stage2_output_tokens_per_model ==
            Max(CeilRatio(base_tokens, stage2_output_ratio),
                Get(params, "min_stage2_tokens", 0))
        stage2_total_output_tokens == stage2_output_tokens_per_model * num_models
        stage3_input_tokens ==
            Max(base_tokens + stage1_total_output_tokens + stage2_total_output_tokens,
                Get(params, "min_stage3_tokens", 0))
        stage3_output_tokens ==
            Max(CeilRatio(base_tokens, stage3_output_ratio),
                Get(params, "min_stage3_tokens", 0))
        stage1_estimates ==
            [i \in DOMAIN model_ids |->
                EstimateModelCost(model_ids[i], stage1_input_tokens_per_model,
                                  stage1_output_tokens_per_model, pricing)]
        stage2_estimates ==
            [i \in DOMAIN model_ids |->
                EstimateModelCost(model_ids[i], stage2_input_tokens_per_model,
                                  stage2_output_tokens_per_model, pricing)]
        chairman_estimate ==
            EstimateModelCost(chairman_model, stage3_input_tokens, stage3_output_tokens,
                              pricing)
        stage1_total == SumCostTotal(stage1_estimates, num_models)
        stage2_total == SumCostTotal(stage2_estimates, num_models)
        stage3_total == chairman_estimate.cost_total
    IN  [char_count |-> total_chars,
         base_tokens |-> base_tokens,
         assumptions |->
             Merge(params,
                   [stage1_output_ratio |-> stage1_output_ratio,
                    stage2_output_ratio |-> stage2_output_ratio,
                    stage3_output_ratio |-> stage3_output_ratio,
                    stage1_input_tokens_per_model |-> stage1_input_tokens_per_model,
                    stage1_output_tokens_per_model |-> stage1_output_tokens_per_model,
                    stage2_input_tokens_per_model |-> stage2_input_tokens_per_model,
                    stage2_output_tokens_per_model |-> stage2_output_tokens_per_model,
                    stage3_input_tokens |-> stage3_input_tokens,
                    stage3_output_tokens |-> stage3_output_tokens,
                    num_models |-> num_models]),
         stage1 |-> [per_model |-> stage1_estimates, cost_total |-> stage1_total],
         stage2 |-> [per_model |-> stage2_estimates, cost_total |-> stage2_total],
         stage3 |-> [chairman |-> chairman_estimate, cost_total |-> stage3_total],
         cost_total |-> stage1_total + stage2_total + stage3_total]

\* the inputs estimate_council_cost is followed on
CharCounts ==
    LET from == DEFAULT_ASSUMPTIONS.chars_per_token
                    * (DEFAULT_ASSUMPTIONS.min_stage1_tokens
                           + DEFAULT_ASSUMPTIONS.min_stage2_tokens)
    IN  (0..MaxChars) \cup { from + i : i \in 0..MaxChars }

ModelLists ==
    { COUNCIL_MODELS,
      << >>,
      << "deepseek/deepseek-v3.2", "unlisted/model" >> }

ChairmanModels == { CHAIRMAN_MODEL, "unlisted/model" }

\* the overrides the /api/estimate_cost endpoint collects from a request: the
\* keys of the request that are not None
AssumptionsOverride ==
    { [stage1_output_multiplier |-> 50],
      [stage2_output_multiplier |-> 70, stage3_output_multiplier |-> 40],
      [chars_per_token |-> 2, stage2_input_multiplier |-> 150,
       stage3_output_multiplier |-> 100] }

\* what the endpoint passes as assumptions: {**DEFAULT_ASSUMPTIONS, **override}
EndpointAssumptions ==
    { Merge(DEFAULT_ASSUMPTIONS, assumptions_override) :
          assumptions_override \in AssumptionsOverride }

AssumptionSets ==
    { << >>,
      DEFAULT_ASSUMPTIONS,
      [min_stage1_tokens |-> 0, min_stage2_tokens |-> 0, min_stage3_tokens |-> 0],
      [chars_per_token |-> 1, min_stage1_tokens |-> 0, min_stage2_tokens |-> 0,
       min_stage3_tokens |-> 0, stage1_output_ratio |-> 100,
       stage2_output_ratio |-> 50, stage3_output_ratio |-> 100],
      [stage1_output_multiplier |-> 50] }
        \cup EndpointAssumptions

\* estimate_council_cost is called and returns; one call is followed
EstimateCost ==
    /\ estimate = << >>
    /\ \E total_chars \in CharCounts, model_ids \in ModelLists,
          chairman_model \in ChairmanModels, assumptions \in AssumptionSets :
            estimate' =
                [total_chars |-> total_chars,
                 models |-> model_ids,
                 chairman_model |-> chairman_model,
                 assumptions |-> assumptions,
                 result |-> EstimateCouncilCost(total_chars, model_ids, chairman_model,
                                                MODEL_PRICING, assumptions)]
    /\ UNCHANGED << gateVars, roundVars, patch >>

SpecCost == InitDispatch /\ [][EstimateCost]_vars

\* -------------------------------------------------- conversation update
\* A title, a work mode and a project id are held as a one-element tuple, or
\* None.
WorkModes == { << "case-study" >>, << "meeting-minutes" >> }

\* storage.update_conversation_work_mode, line 101: the value is accepted
ValidWorkMode(work_mode) == work_mode = None \/ work_mode \in WorkModes

\* storage.update_conversation_work_mode: ValueError and nothing saved for a
\* value that is not accepted, else the work mode is set and the document
\* saved
UpdateConversationWorkMode(c, work_mode) ==
    IF ValidWorkMode(work_mode) THEN [c EXCEPT !.work_mode = work_mode] ELSE c

\* hasattr(request, name) on a request model: the declared fields
HasAttr(request, name) == name \in DOMAIN request

\* UpdateConversationRequest: title and work_mode, None when not supplied
UpdateConversationRequests ==
    [title : { None, << "renamed" >> },
     work_mode : { None } \cup WorkModes \cup { << "essay" >> }]

\* the PATCH handler update_conversation, which does not suspend: the
\* conversation is read, the title stored if one was supplied, the work mode
\* stored if the condition of line 241 holds, and 400 answered if the store
\* refused the work mode; else the conversation is read again and returned
UpdateConversation ==
    \E request \in UpdateConversationRequests :
        LET conversation == conv
            titled ==
                IF request.title # None
                THEN UpdateConversationTitle(conversation, request.title)
                ELSE conversation
            sets_work_mode == request.work_mode # None \/ HasAttr(request, "work_mode")
        IN  /\ conv' = IF sets_work_mode
                       THEN UpdateConversationWorkMode(titled, request.work_mode)
                       ELSE titled
            /\ patch' = [request |-> request,
                         conversation |-> conversation,
                         status |-> IF sets_work_mode /\ ~ValidWorkMode(request.work_mode)
                                    THEN 400 ELSE 200]
            /\ UNCHANGED << gateVars, council, estimate, pc, is_first_message, events,
                            lateEvent, stage1_results, stage2_results, stage3_result,
                            metadata >>

\* the conversations a PATCH can find stored
StoredConversations ==
    [title : { << "New Conversation" >>, << "earlier" >> },
     messages : StoredBefore,
     project_id : { None, << "project" >> },
     work_mode : { None } \cup WorkModes]

InitPatch ==
    /\ hasReq = [r \in Rounds |-> FALSE]
    /\ disc = [r \in Rounds |-> FALSE]
    /\ models = [r \in Rounds |-> << >>]
    /\ disp = [r \in Rounds |-> "idle"]
    /\ result = [r \in Rounds |-> << >>]
    /\ task = [r \in Rounds |-> [s \in Slots |-> "idle"]]
    /\ sends = [r \in Rounds |-> [s \in Slots |-> 0]]
    /\ discPending = [r \in Rounds |-> {}]
    /\ discInFlight = [r \in Rounds |-> {}]
    /\ lateCall = [r \in Rounds |-> FALSE]
    /\ council = << >>
    /\ conv \in StoredConversations
    /\ pc = [r \in Rounds |-> "idle"]
    /\ is_first_message = [r \in Rounds |-> FALSE]
    /\ events = [r \in Rounds |-> << >>]
    /\ lateEvent = [r \in Rounds |-> FALSE]
    /\ stage1_results = [r \in Rounds |-> {}]
    /\ stage2_results = [r \in Rounds |-> << >>]
    /\ stage3_result = [r \in Rounds |-> "none"]
    /\ metadata = [r \in Rounds |-> << >>]
    /\ estimate = << >>
    /\ patch = << >>

SpecPatch == InitPatch /\ [][UpdateConversation]_vars

\* ================================================================== claims
Count(q, x) == Cardinality({ i \in DOMAIN q : q[i] = x })
Last(q) == q[Len(q)]
IsPrefix(p, q) == Len(p) <= Len(q) /\ \A i \in DOMAIN p : p[i] = q[i]

StageEvents ==
    << "stage1_start", "stage1_complete", "stage2_start", "stage2_complete",
       "stage3_start", "stage3_complete" >>
ExpectedEvents(first) ==
    StageEvents \o (IF first THEN << "title_complete" >> ELSE << >>) \o << "complete" >>

\* the user message of round r is the first message of the stored conversation
IsConversationFirst(r) ==
    /\ conv.messages # << >>
    /\ conv.messages[1] = [role |-> "user", round |-> r]

HasAssistantMessage(r) ==
    \E i \in DOMAIN conv.messages : conv.messages[i] = [role |-> "assistant", round |-> r]

\* C1: a streaming round whose client never disconnects and in which no
\* exception is raised yields exactly stage1_start, stage1_complete,
\* stage2_start, stage2_complete, stage3_start, stage3_complete, then
\* title_complete if and only if its message is the conversation's first, then
\* complete; until then what it has yielded is a prefix of that sequence.
C1_StreamEventSequence ==
    \A r \in Rounds :
        /\ pc[r] = "done" /\ ~disc[r] =>
              events[r] = ExpectedEvents(IsConversationFirst(r))
        /\ InFlight(r) /\ ~disc[r] =>
              \/ IsPrefix(events[r], ExpectedEvents(TRUE))
              \/ IsPrefix(events[r], ExpectedEvents(FALSE))

\* C2: no event is yielded after the client has disconnected, whenever in the
\* round the disconnect happens.
C2_NoEventAfterDisconnect == \A r \in Rounds : ~lateEvent[r]

\* C3: a round whose client disconnected before it completed writes no
\* assistant message to the conversation store.
C3_NoAssistantMessageWhenCancelled ==
    \A r \in Rounds : disc[r] => ~HasAssistantMessage(r)

\* C4: once a check between two stages has found the client disconnected, the
\* round yields no further event and no gateway request is sent for it any
\* more, the title call included: none of its calls is waiting or in flight.
C4_HaltStopsEventsAndCalls ==
    /\ [](\A r \in Rounds : pc[r] = "halted" =>
              /\ ~lateCall[r]
              /\ \A s \in Slots : task[r][s] \notin {"pending", "sent"})
    /\ [][\A r \in Rounds : pc[r] = "halted" =>
              pc'[r] = "halted" /\ events'[r] = events[r]]_vars

\* a check before stage 2 or 3 halted the round while its title call was on
C4_Witness ==
    \E r \in Rounds :
        /\ pc[r] = "halted"
        /\ task[r][TitleModel] = "cancelled"
        /\ sends[r][TitleModel] = 1
        /\ Len(events[r]) >= 2

\* C5: when an exception is raised in a streaming round, exactly one error
\* event is yielded, it is the last event, and neither complete nor a stage
\* event follows it; error is yielded in no other round.
C5_SingleTerminalError ==
    \A r \in Rounds :
        /\ pc[r] = "error" =>
              /\ events[r] # << >>
              /\ Last(events[r]) = "error"
              /\ Count(events[r], "error") = 1
              /\ Count(events[r], "complete") = 0
        /\ Count(events[r], "error") > 0 => pc[r] = "error"

\* the exception was raised after stage3_complete had been yielded
C5_Witness ==
    \E r \in Rounds :
        /\ pc[r] = "error"
        /\ Count(events[r], "stage3_complete") = 1
        /\ Last(events[r]) = "error"

\* C6 as claimed: a gateway call never raises to its caller, whatever the
\* request comes to and also when it is cancelled.
C6_NeverRaises ==
    \A r \in Rounds : \A s \in Slots : task[r][s] \notin {"exc", "cancelled"}

\* C6 as amended: no Exception escapes a gateway call: whatever the request
\* comes to, and when the disconnect is seen before the request is sent, the
\* call returns a response or None; the only thing it raises is the
\* CancelledError of a cancelled caller.
C6_NoExceptionEscapes ==
    \A r \in Rounds : \A s \in Slots :
        /\ task[r][s] # "exc"
        /\ task[r][s] = "cancelled" => disp[r] = "cancelled"
        /\ task[r][s] \in Settled /\ disp[r] # "cancelled" => task[r][s] \in {"ok", "none"}

\* one call returned None for a request that failed, another without sending
C6_Witness ==
    \E r \in Rounds : \E s1, s2 \in Members :
        /\ task[r][s1] = "none" /\ sends[r][s1] = 1
        /\ task[r][s2] = "none" /\ sends[r][s2] = 0
        /\ disp[r] = "returned"

\* C7 as claimed: a call that had not sent its request when the client
\* disconnected makes no outbound request, a call whose request was in flight
\* is aborted, and both return the failure value.
C7_CancellationObservedThroughout ==
    \A r \in Rounds :
        /\ \A s \in discPending[r] :
              sends[r][s] = 0 /\ task[r][s] \in {"pending", "none", "cancelled"}
        /\ \A s \in discInFlight[r] : task[r][s] \in {"sent", "none", "cancelled"}

\* C7 as amended: a call that was given the request and had not yet run its
\* check when the client disconnected makes no outbound request and returns
\* None (or is cancelled with its caller).
C7_DisconnectSeenBeforeSend ==
    \A r \in Rounds : \A s \in discPending[r] :
        sends[r][s] = 0 /\ task[r][s] \in {"pending", "none", "cancelled"}

\* the disconnect found one call waiting, which returned None unsent, and one
\* in flight, which went on to return its response
C7_Witness ==
    \E r \in Rounds : \E s1 \in discPending[r] : \E s2 \in discInFlight[r] :
        /\ task[r][s1] = "none" /\ sends[r][s1] = 0
        /\ task[r][s2] = "ok"

\* the members of the invocation whose call did not bring a response
Failing(r) == { m \in Range(models[r]) : task[r][m] # "ok" }

\* C8: for a list of N members of which k fail, the mapping the dispatcher
\* returns has the N members as its keys, N-k entries that hold the member's
\* response and k entries that hold None.
C8_MappingCoversMembers ==
    \A r \in Rounds : disp[r] = "returned" =>
        LET N == Len(models[r])
            k == Cardinality(Failing(r))
        IN  /\ DOMAIN result[r] = Range(models[r])
            /\ Cardinality(DOMAIN result[r]) = N
            /\ Cardinality({ m \in DOMAIN result[r] : result[r][m] # None }) = N - k
            /\ Cardinality({ m \in DOMAIN result[r] : result[r][m] = None }) = k
            /\ \A m \in Range(models[r]) \ Failing(r) : result[r][m] = Response(m)

\* all MaxMembers members were asked, some failed and some did not
C8_Witness ==
    \E r \in Rounds :
        /\ disp[r] = "returned"
        /\ Len(models[r]) = MaxMembers
        /\ Failing(r) # {}
        /\ Failing(r) # Range(models[r])

\* C9: when a call of a dispatcher invocation is done, every call of the
\* invocation has been created, and the dispatcher has returned (or raised the
\* CancelledError of its caller) only when every call is done.
C9_ConcurrentAndJoined ==
    \A r \in Rounds :
        /\ (\E m \in Range(models[r]) : task[r][m] \in Settled) =>
              \A m \in Range(models[r]) : task[r][m] # "idle"
        /\ disp[r] \in {"returned", "cancelled"} =>
              \A m \in Range(models[r]) : task[r][m] \in Settled

\* the dispatcher returned after calls that were in flight at the same time
\* had ended differently
C9_Witness ==
    \E r \in Rounds : \E m1, m2 \in Range(models[r]) :
        /\ disp[r] = "returned"
        /\ task[r][m1] = "ok" /\ task[r][m2] = "none"
        /\ sends[r][m1] = 1 /\ sends[r][m2] = 1

\* C10: when the call of one member raises an Exception, the dispatcher does
\* not raise and aborts no other call: it returns when all are done, with None
\* for the member that raised and for every other member its own outcome.
C10_FailuresIsolated ==
    \A r \in Rounds :
        /\ disp[r] # "cancelled" => \A m \in Members : task[r][m] # "cancelled"
        /\ (\E m \in Range(models[r]) : task[r][m] = "exc") =>
              disp[r] \in {"gathering", "returned", "cancelled"}
        /\ disp[r] = "returned" =>
              /\ DOMAIN result[r] = Range(models[r])
              /\ \A m \in Range(models[r]) :
                    result[r][m] = IF task[r][m] = "ok" THEN Response(m) ELSE None

\* one member raised, another answered, a third failed
C10_Witness ==
    \E r \in Rounds : \E m1, m2, m3 \in Range(models[r]) :
        /\ disp[r] = "returned"
        /\ task[r][m1] = "exc" /\ result[r][m1] = None
        /\ task[r][m2] = "ok" /\ result[r][m2] = Response(m2)
        /\ task[r][m3] = "none"

\* a step in which round r enters stage 2, and one in which it enters stage 3
EntersStage2(r) == pc'[r] \in {"stage2", "b_stage2"} /\ pc[r] # pc'[r]
EntersStage3(r) == pc'[r] \in {"stage3", "b_stage3"} /\ pc[r] # pc'[r]

\* C11: the stages of a round are strictly sequential, in streaming and in
\* batch mode: stage 2 is entered only when stage 1 was dispatched, every
\* stage 1 call has settled and (streaming) stage1_complete has been yielded;
\* stage 3 is entered only when every stage 2 call has settled and (streaming)
\* stage2_complete, which carries the aggregate, has been yielded; a member
\* call runs only in stage 1 or 2 and the chairman's call only in stage 3.
C11_StagesSequential ==
    /\ [](\A r \in Rounds :
            /\ (\E m \in Members : task[r][m] \in {"pending", "sent"}) =>
                   pc[r] \in {"stage1", "stage2", "b_stage1", "b_stage2"}
            /\ task[r][Chairman] \in {"pending", "sent"} =>
                   pc[r] \in {"stage3", "b_stage3"})
    /\ [][\A r \in Rounds :
            /\ EntersStage2(r) =>
                   /\ pc[r] \in {"check2", "b_stage1"}
                   /\ models[r] = council
                   /\ \A m \in Range(council) : task[r][m] \in Settled
                   /\ pc[r] = "check2" => Count(events[r], "stage1_complete") = 1
            /\ EntersStage3(r) =>
                   /\ pc[r] \in {"check3", "b_stage2"}
                   /\ models[r] = council
                   /\ \A m \in Range(council) : task[r][m] \in Settled
                   /\ pc[r] = "check3" => Count(events[r], "stage2_complete") = 1]_vars

\* a batch round is in stage 3 after a stage 1 and a stage 2 in which members
\* answered, and its chairman's request is in flight
C11_Witness ==
    \E r \in Rounds :
        /\ pc[r] = "b_stage3"
        /\ task[r][Chairman] = "sent"
        /\ stage1_results[r] # {}
        /\ DOMAIN stage2_results[r] # {}
        /\ DOMAIN stage2_results[r] # Range(council)

\* C12: a streaming round whose stage 1 brought no draft at all has yielded
\* stage1_complete with the empty set; with the client connected, its next
\* steps are stage2_start and stage 2, then (unless an exception is raised)
\* stage2_complete, then stage3_start and stage 3, as for any other round.
C12_EmptyStage1Proceeds ==
    /\ [](\A r \in Rounds :
            pc[r] \in {"check2", "stage2", "check3", "stage3"} /\ stage1_results[r] = {} =>
                IsPrefix(<< "stage1_start", "stage1_complete" >>, events[r]))
    /\ [][\A r \in Rounds :
            stage1_results[r] = {} /\ ~disc[r] /\ pc'[r] # pc[r] =>
                /\ pc[r] = "check2" =>
                       pc'[r] = "stage2" /\ events'[r] = Append(events[r], "stage2_start")
                /\ pc[r] = "stage2" /\ pc'[r] # "error" =>
                       pc'[r] = "check3" /\ events'[r] = Append(events[r], "stage2_complete")
                /\ pc[r] = "check3" =>
                       pc'[r] = "stage3" /\ events'[r] = Append(events[r], "stage3_start")]_vars

\* every member of the council failed in stage 1, the client is there, and
\* the round is in stage 3
C12_Witness ==
    \E r \in Rounds :
        /\ pc[r] = "stage3"
        /\ ~disc[r]
        /\ stage1_results[r] = {}
        /\ Len(council) > 1
        /\ events[r] = << "stage1_start", "stage1_complete", "stage2_start",
                          "stage2_complete", "stage3_start" >>

UserMessage(r) == [role |-> "user", round |-> r]
AssistantMessage(r) == [role |-> "assistant", round |-> r]

\* C13: a batch round stores its user message first; it goes through stage 1,
\* stage 2 and stage 3 in that order; it returns only from stage 3, once the
\* chairman's call has settled and no member call is left, and the step that
\* returns appends the one assistant message of the round, right after its
\* user message; a round that raised returned nothing and stored no
\* assistant message; a round that returned does nothing more.
C13_BatchReturnsWholeResultOnce ==
    /\ [](\A r \in Rounds :
            /\ pc[r] \in Batch =>
                   /\ Last(conv.messages) = UserMessage(r)
                   /\ Count(conv.messages, UserMessage(r)) = 1
                   /\ ~HasAssistantMessage(r)
            /\ pc[r] = "failed" => ~HasAssistantMessage(r)
            /\ pc[r] = "returned" =>
                   /\ Len(conv.messages) >= 2
                   /\ Last(conv.messages) = AssistantMessage(r)
                   /\ conv.messages[Len(conv.messages) - 1] = UserMessage(r)
                   /\ Count(conv.messages, AssistantMessage(r)) = 1
                   /\ Count(conv.messages, UserMessage(r)) = 1)
    /\ [][\A r \in Rounds :
            /\ pc[r] \in BatchEnded => pc'[r] = pc[r] /\ conv' = conv
            /\ pc'[r] = "b_stage1" /\ pc[r] # pc'[r] => pc[r] \in {"idle", "b_title"}
            /\ pc'[r] = "b_stage2" /\ pc[r] # pc'[r] => pc[r] = "b_stage1"
            /\ pc'[r] = "b_stage3" /\ pc[r] # pc'[r] => pc[r] = "b_stage2"
            /\ pc'[r] = "returned" /\ pc[r] # pc'[r] =>
                   /\ pc[r] = "b_stage3"
                   /\ task[r][Chairman] \in Settled
                   /\ \A m \in Members : task[r][m] \notin {"pending", "sent"}
                   /\ conv'.messages = Append(conv.messages, AssistantMessage(r))]_vars

\* a batch round on a conversation that held an earlier exchange has returned
C13_Witness ==
    \E r \in Rounds :
        /\ pc[r] = "returned"
        /\ Len(conv.messages) = 4
        /\ ~is_first_message[r]

\* the rounds for which generate_conversation_title has been started
TitleStarted == { r \in Rounds : task[r][TitleModel] # "idle" }

\* C14: title generation is started for at most one request on the
\* conversation, and only for a request whose user message is the first
\* message stored in the conversation.
C14_TitleOnlyForFirstMessage ==
    /\ Cardinality(TitleStarted) <= 1
    /\ \A r \in TitleStarted : IsConversationFirst(r)

\* round r stored a title that is no longer the title of the conversation
TitleDiscarded(r) ==
    /\ pc[r] \in {"save", "done"}
    /\ is_first_message[r]
    /\ conv.title # GeneratedTitle(r, task[r][TitleModel])

\* C15: the store writes of rounds that run at the same time are not ordered
\* round by round, and the last write wins: a round that stores its title
\* replaces whatever title the document holds, another round's included.
\* Every store function reads, changes and writes the document in one step of
\* the event loop, so a write never removes a stored message.
C15_LastWriteWins ==
    /\ [][\A r \in Rounds :
            pc[r] = "await_title" /\ pc'[r] = "save" =>
                conv' = [conv EXCEPT !.title = GeneratedTitle(r, task[r][TitleModel])]]_vars
    /\ [][IsPrefix(conv.messages, conv'.messages)]_vars

\* two rounds ran at the same time; the title one of them stored has been
\* overwritten by the other, whose messages are stored between its own
C15_Witness ==
    \E r, q \in Rounds :
        /\ r # q
        /\ TitleDiscarded(r)
        /\ conv.title = GeneratedTitle(q, "ok")
        /\ pc[q] = "done"
        /\ conv.messages = << UserMessage(r), UserMessage(q), AssistantMessage(r),
                              AssistantMessage(q) >>

\* C16: aggregation is synchronous.  The step in which the rankings of stage
\* 2 come back to the generator is, unless an exception is raised, the step
\* that yields stage2_complete: it makes no disconnect check (it yields also
\* when the client has gone), it sends nothing and moves no gateway call, and
\* the metadata it yields is the label-to-member mapping of the round and the
\* aggregate computed from the rankings yielded with it.  Afterwards the
\* rankings and the metadata of the round stay as they were yielded.
C16_AggregationSynchronous ==
    /\ [](\A r \in Rounds :
            /\ pc[r] \in {"generator", "check1", "stage1", "check2", "stage2"} =>
                   DOMAIN metadata[r] = {} /\ DOMAIN stage2_results[r] = {}
            /\ pc[r] \in {"check3", "stage3", "await_title", "save"} =>
                   /\ Count(events[r], "stage2_complete") = 1
                   /\ metadata[r].label_to_model = LabelToModel(council, stage1_results[r])
                   /\ metadata[r].aggregate_rankings =
                          CalculateAggregateRankings(stage2_results[r],
                              metadata[r].label_to_model, council))
    /\ [][\A r \in Rounds :
            pc[r] = "stage2" /\ pc'[r] \notin {"stage2", "error", "aborted"} =>
                /\ pc'[r] = "check3"
                /\ events'[r] = Append(events[r], "stage2_complete")
                /\ task' = task /\ sends' = sends /\ disc' = disc
                /\ DOMAIN stage2_results'[r] = { m \in Range(council) : task[r][m] = "ok" }
                /\ metadata'[r] = Metadata(r, stage2_results'[r])]_vars

\* stage2_complete was yielded with two rankings that agree and an aggregate
\* that is no tie, to a client that had gone during stage 2
C16_Witness ==
    \E r \in Rounds :
        /\ pc[r] = "check3"
        /\ disc[r]
        /\ Last(events[r]) = "stage2_complete"
        /\ Cardinality(DOMAIN stage2_results[r]) > 1
        /\ metadata[r].aggregate_rankings[1].score > metadata[r].aggregate_rankings[2].score

\* the member at place i of the aggregate of round r has no score to its name:
\* its draft failed, or no ranking came back
Unranked(r, i) ==
    \/ metadata[r].aggregate_rankings[i].model \notin stage1_results[r]
    \/ DOMAIN stage2_results[r] = {}

C18_ChairmanFailureIsAResult ==
    \A r \in Rounds :
        /\ pc[r] = "stage3" /\ task[r][Chairman] = "none" =>
               ENABLED (/\ Stage3Complete(r)
                        /\ events'[r] = Append(events[r], "stage3_complete")
                        /\ stage3_result'[r] = "failed")
        /\ stage3_result[r] = "failed" =>
               /\ pc[r] \in {"await_title", "save"}
               /\ task[r][Chairman] = "none"
               /\ Count(events[r], "stage3_complete") = 1
               /\ Count(events[r], "error") = 0
        /\ stage3_result[r] = "failed" /\ pc[r] = "save" =>
               ENABLED (/\ SaveAndComplete(r)
                        /\ events'[r] = ExpectedEvents(is_first_message[r])
                        /\ HasAssistantMessage(r)')

\* the chairman's request was sent and failed; the round, whose client is
\* there, has yielded stage3_complete and is about to complete
C18_Witness ==
    \E r \in Rounds :
        /\ pc[r] = "save"
        /\ ~disc[r]
        /\ stage3_result[r] = "failed"
        /\ sends[r][Chairman] = 1
        /\ stage1_results[r] # {}
        /\ Last(events[r]) = "stage3_complete"

\* C19: a gateway call sends at most one outbound request, and only when it
\* first runs; a call that has ended is not run again: a member's call is
\* created anew only by the step that enters stage 1 or stage 2, so that in a
\* round a member gets at most one request of stage 1 and one of stage 2.
C19_OneRequestPerCall ==
    /\ [](\A r \in Rounds : \A s \in Slots :
            /\ sends[r][s] <= 1
            /\ task[r][s] \in {"sent", "ok"} => sends[r][s] = 1
            /\ task[r][s] = "pending" => sends[r][s] = 0)
    /\ [][\A r \in Rounds : \A s \in Slots :
            /\ sends'[r][s] > sends[r][s] =>
                   /\ sends'[r][s] = sends[r][s] + 1
                   /\ task[r][s] = "pending" /\ task'[r][s] = "sent"
            /\ task[r][s] \in Settled /\ task'[r][s] # task[r][s] =>
                   \/ task'[r][s] = "idle"
                   \/ /\ s \in Members
                      /\ task'[r][s] = "pending"
                      /\ pc[r] \in {"check2", "b_stage1"}
                      /\ pc'[r] \in {"stage2", "b_stage2"}]_vars

\* a member failed in stage 1; in stage 2 it was asked again, once, and
\* failed again
C19_Witness ==
    \E r \in Rounds : \E m \in Range(council) :
        /\ pc[r] = "stage2"
        /\ m \notin stage1_results[r]
        /\ task[r][m] = "none"
        /\ sends[r][m] = 1

\* the token counts and the cost fields of an estimate
TokenCounts(res) ==
    << res.base_tokens,
       res.assumptions.stage1_input_tokens_per_model,
       res.assumptions.stage1_output_tokens_per_model,
       res.assumptions.stage2_input_tokens_per_model,
       res.assumptions.stage2_output_tokens_per_model,
       res.assumptions.stage3_input_tokens,
       res.assumptions.stage3_output_tokens >>
ModelCosts(item) ==
    << item.input_tokens, item.output_tokens, item.cost_input, item.cost_output,
       item.cost_total >>
Derived(res) ==
    [tokens |-> TokenCounts(res),
     stage1 |-> [i \in DOMAIN res.stage1.per_model |-> ModelCosts(res.stage1.per_model[i])],
     stage2 |-> [i \in DOMAIN res.stage2.per_model |-> ModelCosts(res.stage2.per_model[i])],
     stage3 |-> ModelCosts(res.stage3.chairman),
     totals |-> << res.stage1.cost_total, res.stage2.cost_total, res.stage3.cost_total,
                   res.cost_total >>]

TwiceSeq(s) == [i \in DOMAIN s |-> 2 * s[i]]
Twice(d) ==
    [tokens |-> TwiceSeq(d.tokens),
     stage1 |-> [i \in DOMAIN d.stage1 |-> TwiceSeq(d.stage1[i])],
     stage2 |-> [i \in DOMAIN d.stage2 |-> TwiceSeq(d.stage2[i])],
     stage3 |-> TwiceSeq(d.stage3),
     totals |-> TwiceSeq(d.totals)]

AtMostSeq(s, u) == DOMAIN s = DOMAIN u /\ \A i \in DOMAIN s : s[i] <= u[i]
AtMost(d, e) ==
    /\ AtMostSeq(d.tokens, e.tokens)
    /\ DOMAIN d.stage1 = DOMAIN e.stage1
    /\ \A i \in DOMAIN d.stage1 : AtMostSeq(d.stage1[i], e.stage1[i])
    /\ DOMAIN d.stage2 = DOMAIN e.stage2
    /\ \A i \in DOMAIN d.stage2 : AtMostSeq(d.stage2[i], e.stage2[i])
    /\ AtMostSeq(d.stage3, e.stage3)
    /\ AtMostSeq(d.totals, e.totals)

\* the estimate for the same inputs and another character count
EstimateFor(total_chars, assumptions) ==
    EstimateCouncilCost(total_chars, estimate.models, estimate.chairman_model,
                        MODEL_PRICING, assumptions)

\* no min_*_tokens threshold is active in the estimate that was made: with
\* every minimum set to 0 the token counts are the same
NoMinimums ==
    [min_stage1_tokens |-> 0, min_stage2_tokens |-> 0, min_stage3_tokens |-> 0]
ThresholdsInactive ==
    TokenCounts(estimate.result) =
        TokenCounts(EstimateFor(estimate.total_chars, Merge(estimate.assumptions, NoMinimums)))

\* no ceil of the estimate that was made rounds up
NoRounding ==
    LET a == estimate.result.assumptions
        base == estimate.result.base_tokens
    IN  /\ estimate.total_chars % a.chars_per_token = 0
        /\ (base * a.stage1_output_ratio) % 100 = 0
        /\ (base * a.stage2_output_ratio) % 100 = 0
        /\ (base * a.stage3_output_ratio) % 100 = 0

\* C20 as claimed: whenever no min_*_tokens threshold is active, the estimate
\* for twice the character count has every token count and every cost field
\* exactly twice that of the estimate for the character count.
C20_DoublingDoublesEverything ==
    estimate # << >> /\ ThresholdsInactive =>
        Derived(EstimateFor(2 * estimate.total_chars, estimate.assumptions))
            = Twice(Derived(estimate.result))

\* C20 as amended: whenever no min_*_tokens threshold is active, every token
\* count and every cost field of the estimate for twice the character count
\* is at most twice that of the estimate for the character count, and exactly
\* twice when no ceil rounds up: when the character count is a multiple of
\* chars_per_token and base_tokens times each stage output ratio is whole.
C20_DoublingUpToRounding ==
    estimate # << >> /\ ThresholdsInactive =>
        LET doubled == Derived(EstimateFor(2 * estimate.total_chars, estimate.assumptions))
        IN  /\ AtMost(doubled, Twice(Derived(estimate.result)))
            /\ NoRounding => doubled = Twice(Derived(estimate.result))

\* an estimate with the default assumptions for the configured council, for
\* a character count at which no minimum is active and nothing is rounded
C20_Witness ==
    /\ estimate # << >>
    /\ estimate.assumptions = DEFAULT_ASSUMPTIONS
    /\ estimate.models = COUNCIL_MODELS
    /\ estimate.chairman_model = CHAIRMAN_MODEL
    /\ estimate.total_chars > 0
    /\ ThresholdsInactive
    /\ NoRounding
    /\ estimate.result.cost_total > 0

\* the minimums an estimate was made with
Minimums(res) ==
    [stage1 |-> res.assumptions.min_stage1_tokens,
     stage2 |-> res.assumptions.min_stage2_tokens,
     stage3 |-> res.assumptions.min_stage3_tokens]

\* C21 as claimed: in an estimate for a character count of 0 no token count
\* is zero, and every token count equals the configured minimum of its stage.
C21_AllCountsAreMinimums ==
    estimate # << >> /\ estimate.total_chars = 0 =>
        LET res == estimate.result
            min == Minimums(res)
        IN  /\ \A i \in DOMAIN TokenCounts(res) : TokenCounts(res)[i] # 0
            /\ TokenCounts(res) =
                   << min.stage1, min.stage1, min.stage1, min.stage2, min.stage2,
                      min.stage3, min.stage3 >>

\* C21 as amended: in an estimate for a character count of 0 the base tokens
\* and the stage 1 input tokens equal min_stage1_tokens, and the minimums
\* are floors of the other counts: the stage 1 output is at least half of
\* min_stage1_tokens, the stage 2 counts at least min_stage2_tokens and the
\* stage 3 counts at least min_stage3_tokens.  With the three minimums
\* positive no token count is zero.
C21_MinimumsAreFloors ==
    estimate # << >> /\ estimate.total_chars = 0 =>
        LET res == estimate.result
            a == res.assumptions
            min == Minimums(res)
        IN  /\ res.base_tokens = min.stage1
            /\ a.stage1_input_tokens_per_model = min.stage1
            /\ a.stage1_output_tokens_per_model >= min.stage1 \div 2
            /\ a.stage2_input_tokens_per_model >= min.stage2
            /\ a.stage2_output_tokens_per_model >= min.stage2
            /\ a.stage3_input_tokens >= min.stage3
            /\ a.stage3_output_tokens >= min.stage3
            /\ (min.stage1 > 0 /\ min.stage2 > 0 /\ min.stage3 > 0 =>
                    \A i \in DOMAIN TokenCounts(res) : TokenCounts(res)[i] > 0)

\* an estimate for 0 characters with the default assumptions for the
\* configured council: the stage 2 output sits on its minimum, the stage 1
\* output and the stage 2 input do not
C21_Witness ==
    /\ estimate # << >>
    /\ estimate.total_chars = 0
    /\ estimate.assumptions = DEFAULT_ASSUMPTIONS
    /\ estimate.models = COUNCIL_MODELS
    /\ estimate.result.base_tokens = DEFAULT_ASSUMPTIONS.min_stage1_tokens
    /\ estimate.result.assumptions.stage2_output_tokens_per_model
           = DEFAULT_ASSUMPTIONS.min_stage2_tokens
    /\ estimate.result.assumptions.stage1_output_tokens_per_model
           < DEFAULT_ASSUMPTIONS.min_stage1_tokens
    /\ estimate.result.assumptions.stage2_input_tokens_per_model
           > DEFAULT_ASSUMPTIONS.min_stage2_tokens

\* the legacy keys of the stage output ratios
LegacyKey ==
    [stage1 |-> "stage1_output_multiplier",
     stage2 |-> "stage2_output_multiplier",
     stage3 |-> "stage3_output_multiplier"]

\* the output ratio and the output tokens an estimate used for a stage, and
\* the floor of the stage's output tokens
UsedRatio(res, stage) ==
    CASE stage = "stage1" -> res.assumptions.stage1_output_ratio
      [] stage = "stage2" -> res.assumptions.stage2_output_ratio
      [] stage = "stage3" -> res.assumptions.stage3_output_ratio
OutputTokens(res, stage) ==
    CASE stage = "stage1" -> res.assumptions.stage1_output_tokens_per_model
      [] stage = "stage2" -> res.assumptions.stage2_output_tokens_per_model
      [] stage = "stage3" -> res.assumptions.stage3_output_tokens
OutputFloor(res, stage) ==
    CASE stage = "stage1" -> res.assumptions.min_stage1_tokens \div 2
      [] stage = "stage2" -> res.assumptions.min_stage2_tokens
      [] stage = "stage3" -> res.assumptions.min_stage3_tokens

\* C22: a stage output ratio supplied under its legacy key is the ratio the
\* estimate uses for the stage's output tokens.
C22_LegacyKeyHonored ==
    estimate # << >> =>
        \A stage \in DOMAIN LegacyKey :
            LegacyKey[stage] \in DOMAIN estimate.assumptions =>
                LET supplied == estimate.assumptions[LegacyKey[stage]]
                    res == estimate.result
                IN  /\ UsedRatio(res, stage) = supplied
                    /\ OutputTokens(res, stage) =
                           Max(CeilRatio(res.base_tokens, supplied),
                               OutputFloor(res, stage))

\* the sum of the cost_total of the items of a list, from the first item on
RECURSIVE CostTotalFrom(_, _)
CostTotalFrom(items, i) ==
    IF i > Len(items) THEN 0 ELSE items[i].cost_total + CostTotalFrom(items, i + 1)

ItemConsistent(item) ==
    /\ item.cost_total = item.cost_input + item.cost_output
    /\ item.model \notin DOMAIN MODEL_PRICING =>
           item.cost_total = 0 /\ item.pricing_missing

\* C23: in every estimate each per-model cost_total is cost_input plus
\* cost_output, the stage 1 and stage 2 totals are the sums of their
\* per-model totals over the member list, the stage 3 total is the
\* chairman's total, the grand total is the sum of the three stage totals,
\* and a model absent from the pricing table costs 0 and is flagged
\* pricing_missing.
C23_TotalsConsistent ==
    estimate # << >> =>
        LET res == estimate.result
        IN  /\ Len(res.stage1.per_model) = Len(estimate.models)
            /\ Len(res.stage2.per_model) = Len(estimate.models)
            /\ \A i \in DOMAIN estimate.models :
                   /\ res.stage1.per_model[i].model = estimate.models[i]
                   /\ res.stage2.per_model[i].model = estimate.models[i]
                   /\ ItemConsistent(res.stage1.per_model[i])
                   /\ ItemConsistent(res.stage2.per_model[i])
            /\ res.stage3.chairman.model = estimate.chairman_model
            /\ ItemConsistent(res.stage3.chairman)
            /\ res.stage1.cost_total = CostTotalFrom(res.stage1.per_model, 1)
            /\ res.stage2.cost_total = CostTotalFrom(res.stage2.per_model, 1)
            /\ res.stage3.cost_total = res.stage3.chairman.cost_total
            /\ res.cost_total =
                   res.stage1.cost_total + res.stage2.cost_total + res.stage3.cost_total

\* an estimate for a priced member and an unpriced one: the unpriced member
\* adds nothing, the priced one has an input and an output cost
C23_Witness ==
    /\ estimate # << >>
    /\ Len(estimate.models) = 2
    /\ \E i \in DOMAIN estimate.models :
           /\ estimate.models[i] \notin DOMAIN MODEL_PRICING
           /\ estimate.result.stage1.per_model[i].pricing_missing
    /\ \E i \in DOMAIN estimate.models :
           /\ estimate.result.stage1.per_model[i].cost_input > 0
           /\ estimate.result.stage1.per_model[i].cost_output > 0
    /\ estimate.result.stage3.cost_total > 0
    /\ estimate.result.cost_total > estimate.result.stage3.cost_total

\* the rounds that go through the streaming handler
Streaming == { r \in Rounds : pc[r] \notin Batch \cup BatchEnded \cup {"idle"} }

\* C24: a streaming round writes its assistant message at most once, only
\* after it has yielded stage3_complete, and in the step that yields complete:
\* whenever complete has been yielded the stored conversation holds the
\* assistant message of the round, and it holds it only then.
C24_AssistantMessageOnceBeforeComplete ==
    /\ [](\A r \in Streaming :
            /\ Count(conv.messages, AssistantMessage(r)) <= 1
            /\ HasAssistantMessage(r) => Count(events[r], "stage3_complete") = 1
            /\ HasAssistantMessage(r) <=> Count(events[r], "complete") > 0)
    /\ [][\A r \in Streaming :
            Count(conv'.messages, AssistantMessage(r)) # Count(conv.messages, AssistantMessage(r)) =>
                /\ conv'.messages = Append(conv.messages, AssistantMessage(r))
                /\ Count(events[r], "stage3_complete") = 1
                /\ events'[r] = Append(events[r], "complete")]_vars

\* a streaming round on a conversation that held an earlier exchange is done:
\* its assistant message is the last stored message
C24_Witness ==
    \E r \in Streaming :
        /\ pc[r] = "done"
        /\ Last(events[r]) = "complete"
        /\ Len(conv.messages) = 4
        /\ Last(conv.messages) = AssistantMessage(r)

\* C25 as claimed: every assistant message in the stored message list is
\* immediately preceded by the user message of the same round.
C25_AssistantFollowsItsUserMessage ==
    \A i \in DOMAIN conv.messages :
        conv.messages[i].role = "assistant" =>
            /\ i > 1
            /\ conv.messages[i - 1] = UserMessage(conv.messages[i].round)

\* C25 as amended: the message list only grows, one message at a time, and
\* every assistant message is preceded by the user message of its round, with
\* nothing but messages of other rounds between the two: the messages those
\* rounds stored while the round was being processed.  A round stores at most
\* one user and one assistant message.
C25_AssistantAfterItsUserMessage ==
    /\ [](\A r \in Rounds :
            /\ Count(conv.messages, UserMessage(r)) <= 1
            /\ Count(conv.messages, AssistantMessage(r)) <= 1
            /\ \A i \in DOMAIN conv.messages :
                   conv.messages[i] = AssistantMessage(r) =>
                       \E j \in 1..(i - 1) :
                           /\ conv.messages[j] = UserMessage(r)
                           /\ \A k \in (j + 1)..(i - 1) :
                                  conv.messages[k].round \in Rounds \ {r})
    /\ [][conv'.messages # conv.messages =>
            \E r \in Rounds :
                \/ conv'.messages = Append(conv.messages, UserMessage(r))
                \/ conv'.messages = Append(conv.messages, AssistantMessage(r))]_vars

\* a batch round and a streaming round overlapped and both came to their
\* end: the two user messages are stored before the two assistant messages
C25_Witness ==
    \E r, q \in Rounds :
        /\ pc[r] = "returned"
        /\ pc[q] = "done"
        /\ conv.messages = << UserMessage(r), UserMessage(q), AssistantMessage(r),
                              AssistantMessage(q) >>

\* round r has made no gateway call and started no title generation
NoCallMade(r) ==
    /\ \A s \in Slots : task[r][s] = "idle" /\ sends[r][s] = 0
    /\ ~lateCall[r]

\* C26: a streaming round whose client has gone when its generator starts
\* has no effect.  The generator's next step ends the round and changes
\* neither the conversation nor the events; a round that ended there has
\* stored no user message, started no title generation, made no gateway call
\* and yielded no event, and it stays so.
C26_DisconnectedAtStartHasNoEffect ==
    /\ [](\A r \in Rounds :
            pc[r] = "skipped" =>
                /\ Count(conv.messages, UserMessage(r)) = 0
                /\ Count(conv.messages, AssistantMessage(r)) = 0
                /\ events[r] = << >>
                /\ NoCallMade(r))
    /\ [][\A r \in Rounds :
            /\ pc[r] = "generator" /\ disc[r] =>
                   /\ pc'[r] \in {"skipped", "aborted"}
                   /\ conv' = conv
                   /\ events'[r] = events[r]
                   /\ NoCallMade(r)'
            /\ pc[r] = "skipped" => pc'[r] = "skipped" /\ conv' = conv]_vars

\* the client of the first request on an empty conversation had gone when
\* the generator started: the conversation is still empty
C26_Witness ==
    \E r \in Rounds :
        /\ pc[r] = "skipped"
        /\ disc[r]
        /\ is_first_message[r]
        /\ conv.messages = << >>

\* C27: a streaming round terminates.  If its client stays connected the
\* round, once its generator has been created, eventually yields complete or
\* error as its last event, and it yields complete if no exception is raised.
C27_StreamingRoundTerminates ==
    \A r \in Rounds :
        /\ []~disc[r] =>
               (pc[r] = "generator" ~>
                   /\ pc[r] \in {"done", "error"}
                   /\ Last(events[r]) \in {"complete", "error"})
        /\ []~disc[r] /\ [](pc[r] # "error") =>
               (pc[r] = "generator" ~>
                   /\ pc[r] = "done"
                   /\ Last(events[r]) = "complete")

\* a round whose client stayed connected came to complete although every
\* member failed in both stages and the chairman failed
C27_Witness ==
    \E r \in Rounds :
        /\ pc[r] = "done"
        /\ ~disc[r]
        /\ Last(events[r]) = "complete"
        /\ events[r][1] = "stage1_start"
        /\ \A m \in Range(council) : task[r][m] = "idle"
        /\ Count(events[r], "title_complete") = 1

\* C28: a conversation update changes only the fields the request supplies:
\* an update that supplies a title and no work_mode leaves the stored
\* work_mode as it was, and every update leaves the message list and the
\* project_id as they were.
C28_UpdateChangesOnlySuppliedFields ==
    patch # << >> =>
        /\ conv.messages = patch.conversation.messages
        /\ conv.project_id = patch.conversation.project_id
        /\ patch.request.title # None /\ patch.request.work_mode = None =>
               conv.work_mode = patch.conversation.work_mode

\* C29: a conversation update answered with 400 for its work_mode leaves the
\* stored conversation as it was, title included.
C29_RejectedUpdateChangesNothing ==
    patch # << >> /\ patch.status = 400 => conv = patch.conversation

====
